---- MODULE Spec2Model ----
(***************************************************************************)
(* Model of the buffered search engine of remark42                         *)
(* (backend/app/store/search/buffered_engine.go) together with the         *)
(* construction of the engine in newBleve.                                 *)
(*                                                                         *)
(* Threads: the indexer worker goroutine (wpc), the caller goroutines      *)
(* that run IndexDocument and Flush (pc[c], c \in Callers), the goroutine  *)
(* that runs Init (pc[0]) and the goroutine that runs Close (cpc).         *)
(* queueNotifier and every idxFlusher.notifier are unbuffered channels, so *)
(* a send and its receive are one rendezvous step.  queueLock is held by   *)
(* callers only for a PushBack, which is one step (taken together with the *)
(* entry of the call when the lock is free); the worker holds it across    *)
(* the deferred sends of writeAheadLog, so the lock is a variable.         *)
(*                                                                         *)
(* Besides the engine the module models the service factories              *)
(* newBleveService and newElasticService with parseSecret, the calls of    *)
(* the elastic service, the limit guard of the /search handler and the     *)
(* sort validation of Search on the local back end.  Each has its own      *)
(* specification; the variables of the parts a specification does not run  *)
(* keep their initial values.                                              *)
(***************************************************************************)
EXTENDS Integers, Sequences, FiniteSets, TLC

\* ---------------------------------------------------------------- bounds
NCallers == 2
MaxOps == 2
MaxGen == 2
NumIDs == 1
\* flushCount is 100 in newBleve; scaled down so that a full queue is reachable
flushCount == 2
MaxDeletes == 1
MaxWalDocs == 2
MaxSecretLen == 5
NumSites == 2
MaxCalls == 2
MaxParamLen == 3
MaxSortLen == 4

Callers == 1..NCallers
\* thread 0 is the goroutine that calls Init after construction
Threads == 0..NCallers
DocIDs == 1..NumIDs

VARIABLES
  queue,       \* docQueue: sequence of entries, front first
  lock,        \* queueLock holder: "free" or "worker"
  closed,      \* queueNotifier has been closed
  indexClosed, \* index.Close() has been called
  wg,          \* shutdownWait counter
  wpc,         \* position of the indexer worker goroutine
  force,       \* worker local: value received from queueNotifier
  cont,        \* worker local: loop condition
  batch,       \* worker local: documents added to the batch being built
  deferred,    \* worker local: owners of the flushers whose send is deferred
  pc,          \* position of every caller goroutine
  op,          \* operation a caller runs or ran last
  arg,         \* document a caller is indexing
  res,         \* result of the caller's last call
  cpc,         \* position of the goroutine that runs Close
  wal,         \* ahead log file: [exists, data]
  rpos,        \* Init: number of bytes of the ahead log consumed by the reader
  index,       \* back end content: document id -> version (0: absent)
  gen,         \* number of engines constructed on this index path
  ops,         \* number of IndexDocument/Flush calls made (bounded by MaxOps)
  \* history variables
  accepted,    \* versions in the order of their PushBack
  handed,      \* versions in the order they were handed to index.Batch
  committedOK, \* versions contained in a batch whose commit succeeded
  returned,    \* versions whose IndexDocument call returned nil
  flushPre,    \* per caller: `returned` when its Flush call started
  startClosed, \* per caller: the notifier was closed when the call started
  startCommit, \* per caller: the call started during the commit now in flight
  exitFlushers,\* owners of the flushers in the queue when the worker loop exited
  shutQueue,   \* versions in the queue when Close closed the notifier
  graceful,    \* no Flush was called, and no call overlapped or followed Close
  prev,        \* shutQueue and graceful of the previous engine on this path
  fault,       \* a back-end or file operation failed on its own, or Init was cancelled
  dels,        \* number of Delete calls made (bounded by MaxDeletes)
  delAfter,    \* per caller: no IndexDocument call for the id overlaps its Delete call
  deleted,     \* ids whose Delete returned nil without overlapping an IndexDocument
               \* call for the id, no IndexDocument for the id issued since
  flushDel,    \* per caller: `deleted` when its Flush call started
  lastOK,      \* per id: the successfully committed version that was accepted last
  pass,        \* the pass of indexBatch in progress: the versions popped, those
               \* batch.Index failed for, the owners of the flushers
  \* the service factories and the remote (elastic) service
  params,      \* SearcherParams given to the factory
  fpc,         \* position of the factory
  cfg,         \* elasticsearch.Config filled by parseSecret
  shards,      \* per site, in order of construction: the shard or bulk indexer built
  ferr,        \* error returned by the factory or by parseSecret
  eres,        \* last call on the elastic service and its result
  ecalls,      \* number of calls made on the elastic service
  \* the /search handler
  query,       \* URL query parameters of the request
  http,        \* what the handler did: status written, arguments given to Search
  \* Search on the local (bleve) back end
  sreq,        \* Request.SortBy
  sres         \* what bleveIndexer.Search did: the sort order applied, its error

vars == <<queue, lock, closed, indexClosed, wg, wpc, force, cont, batch, deferred,
          pc, op, arg, res, cpc, wal, rpos, index, gen, ops,
          accepted, handed, committedOK, returned, flushPre, startClosed,
          startCommit, exitFlushers, shutQueue, graceful, prev, fault,
          dels, delAfter, deleted, flushDel, lastOK, pass,
          params, fpc, cfg, shards, ferr, eres, ecalls, query, http, sreq, sres>>

engineVars == <<queue, lock, closed, indexClosed, wg>>
workerVars == <<wpc, force, cont, batch, deferred>>
callerVars == <<pc, op, arg, res>>
diskVars == <<wal, rpos, index, gen, ops>>
histVars == <<accepted, handed, committedOK, returned, flushPre, startClosed,
              startCommit, exitFlushers, shutQueue, graceful, prev, fault>>
delVars == <<dels, delAfter, deleted, flushDel>>
bufferedVars == <<engineVars, workerVars, callerVars, cpc, diskVars, histVars, delVars,
                  lastOK, pass>>
svcVars == <<params, fpc, cfg, shards, ferr, eres, ecalls>>
httpVars == <<query, http>>
sortVars == <<sreq, sres>>
auxVars == <<svcVars, httpVars, sortVars>>

\* ------------------------------------------------------------ queue entries
NoDoc == [kind |-> "none", id |-> 0, ver |-> 0, owner |-> 0]
\* *DocumentComment
DocumentComment(i, v) == [kind |-> "doc", id |-> i, ver |-> v, owner |-> 0]
\* *idxFlusher, identified by the caller that waits on its notifier
idxFlusher(c) == [kind |-> "flusher", id |-> 0, ver |-> 0, owner |-> c]
\* the commentID given to Delete
DeleteArg(i) == [kind |-> "delete", id |-> i, ver |-> 0, owner |-> 0]

PushFront(q, e) == <<e>> \o q
\* deque.PushBack
PushBack(q, e) == Append(q, e)

RECURSIVE Vers(_)
Vers(q) ==
  IF q = <<>> THEN <<>>
  ELSE IF Head(q).kind = "doc" THEN <<Head(q).ver>> \o Vers(Tail(q))
  ELSE Vers(Tail(q))

RECURSIVE Owners(_)
Owners(q) ==
  IF q = <<>> THEN <<>>
  ELSE IF Head(q).kind = "flusher" THEN <<Head(q).owner>> \o Owners(Tail(q))
  ELSE Owners(Tail(q))

Range(s) == {s[i] : i \in 1..Len(s)}

RECURSIVE IsSubseq(_, _)
IsSubseq(s, t) ==
  IF s = <<>> THEN TRUE
  ELSE IF t = <<>> THEN FALSE
  ELSE IF Head(s) = Head(t) THEN IsSubseq(Tail(s), Tail(t))
  ELSE IsSubseq(s, Tail(t))

\* ------------------------------------------------------------ ahead log format
\* json.Marshal of a document: its fields as non-zero bytes
Marshal(d) == <<d.id, d.ver>>
NilPtr == "nil"
NewPtr == "new"
\* json.Unmarshal(data, target): fails on a nil target and on malformed data
Unmarshal(data, target) ==
  IF target = NilPtr THEN [err |-> TRUE, doc |-> NoDoc]
  ELSE IF Len(data) # 2 THEN [err |-> TRUE, doc |-> NoDoc]
  ELSE [err |-> FALSE, doc |-> DocumentComment(data[1], data[2])]

\* bufio.Reader.ReadBytes(0x0) on the bytes that follow offset p
ReadBytes(data, p) ==
  LET rest == SubSeq(data, p + 1, Len(data))
      zs == {i \in 1..Len(rest) : rest[i] = 0}
  IN IF zs = {} THEN [eof |-> TRUE, data |-> rest, n |-> Len(rest)]
     ELSE LET z == CHOOSE i \in zs : \A j \in zs : i <= j
          IN [eof |-> FALSE, data |-> SubSeq(rest, 1, z), n |-> z]

\* records of the ahead log that end with their 0x00 terminator, as versions
RECURSIVE WalVers(_)
WalVers(data) ==
  LET r == ReadBytes(data, 0)
  IN IF r.eof THEN <<>>
     ELSE (IF r.n = 3 THEN <<r.data[2]>> ELSE <<>>)
          \o WalVers(SubSeq(data, r.n + 1, Len(data)))

\* ------------------------------------------------------------ back end
\* a batch that would insert a document only when its id is absent
RECURSIVE ApplyBatchFirstWins(_, _)
ApplyBatchFirstWins(idx, b) ==
  IF b = <<>> THEN idx
  ELSE ApplyBatchFirstWins(
         IF idx[Head(b).id] = 0 THEN [idx EXCEPT ![Head(b).id] = Head(b).ver] ELSE idx,
         Tail(b))

RECURSIVE ApplyBatch(_, _)
\* index.Batch(batch) on success: upserts in batch order
ApplyBatch(idx, b) ==
  IF b = <<>> THEN idx
  ELSE ApplyBatch([idx EXCEPT ![Head(b).id] = Head(b).ver], Tail(b))

\* position of version v in the order of acceptance (0: not accepted by this engine)
Pos(v) == IF \E k \in 1..Len(accepted) : accepted[k] = v
          THEN CHOOSE k \in 1..Len(accepted) : accepted[k] = v
          ELSE 0

\* per id, the version accepted last among last[id] and the documents of batch b
LastAccepted(last, b) ==
  [i \in DocIDs |->
     LET cand == {last[i]} \cup {b[k].ver : k \in {j \in 1..Len(b) : b[j].id = i}}
     IN CHOOSE v \in cand : \A w \in cand : Pos(w) <= Pos(v)]

\* ------------------------------------------------------------ initial state
NoWal == [exists |-> FALSE, data |-> <<>>]

\* indexBatch is not running, or has found the queue empty
NoPass == [popped |-> {}, failed |-> {}, owners |-> <<>>]

\* state right after newBleve: the engine is built and `go eng.indexDocumentWorker()`
\* has been issued, the worker goroutine has not run yet
InitEngine ==
  /\ queue = <<>>
  /\ lock = "free"
  /\ closed = FALSE
  /\ indexClosed = FALSE
  /\ wg = 0
  /\ wpc = "start"
  /\ force = FALSE
  /\ cont = TRUE
  /\ batch = <<>>
  /\ deferred = <<>>
  /\ pc = [t \in Threads |-> "idle"]
  /\ op = [t \in Threads |-> "none"]
  /\ arg = [t \in Threads |-> NoDoc]
  /\ res = [t \in Threads |-> "none"]
  /\ cpc = "idle"
  /\ rpos = 0
  /\ index = [i \in DocIDs |-> 0]
  /\ gen = 1
  /\ ops = 0
  /\ accepted = <<>>
  /\ handed = <<>>
  /\ committedOK = {}
  /\ returned = {}
  /\ flushPre = [t \in Threads |-> {}]
  /\ startClosed = [t \in Threads |-> FALSE]
  /\ startCommit = [t \in Threads |-> FALSE]
  /\ exitFlushers = {}
  /\ shutQueue = {}
  /\ graceful = TRUE
  /\ prev = [queue |-> {}, graceful |-> FALSE]
  /\ fault = FALSE
  /\ dels = 0
  /\ delAfter = [t \in Threads |-> FALSE]
  /\ deleted = {}
  /\ flushDel = [t \in Threads |-> {}]
  /\ lastOK = [i \in DocIDs |-> 0]
  /\ pass = NoPass

\* no call was made on the elastic service
NoCall == [op |-> "none", site |-> 0, err |-> "none"]

\* no service factory has run
IdleService ==
  /\ params = "none"
  /\ fpc = "idle"
  /\ cfg = "none"
  /\ shards = <<>>
  /\ ferr = "none"
  /\ eres = NoCall
  /\ ecalls = 0

\* nothing was written to the response and Search was not called
NoResponse == [status |-> 0, searched |-> FALSE, limit |-> 0, skip |-> 0]

\* no request is being handled
IdleHandler ==
  /\ query = "none"
  /\ http = NoResponse

\* Search was not called on the local back end
NoResult ==
  [executed |-> FALSE, sorted |-> FALSE, order |-> <<>>, indexErr |-> FALSE, err |-> "none"]

\* no search request
IdleSearch ==
  /\ sreq = <<>>
  /\ sres = NoResult

\* a new index path: no ahead log
Init ==
  /\ InitEngine
  /\ wal = NoWal
  /\ IdleService
  /\ IdleHandler
  /\ IdleSearch

\* ------------------------------------------------------------ callers
\* Init is called first or not at all, other calls start when it is not running;
\* callers are interchangeable, so caller c + 1 is used only after caller c
MayStart(c) ==
  /\ pc[0] \in {"idle", "done"}
  /\ c = 1 \/ op[c - 1] # "none"
  /\ ops < MaxOps

\* queueLock.Lock(); docQueue.PushBack(e); queueLock.Unlock() by thread t,
\* which then stands at the send on queueNotifier
Pushed(t, e) ==
  /\ queue' = PushBack(queue, e)
  /\ accepted' = IF e.kind = "doc" THEN Append(accepted, e.ver) ELSE accepted
  /\ pc' = [pc EXCEPT ![t] = "send"]

\* a call enters: it pushes at once when queueLock is free and waits for it otherwise
Entered(c, e) ==
  /\ ops' = ops + 1
  /\ arg' = [arg EXCEPT ![c] = e]
  /\ res' = [res EXCEPT ![c] = "none"]
  /\ startClosed' = [startClosed EXCEPT ![c] = closed]
  /\ startCommit' = [startCommit EXCEPT ![c] = (wpc = "commit")]
  /\ IF lock = "free"
     THEN Pushed(c, e)
     ELSE /\ pc' = [pc EXCEPT ![c] = "lock"]
          /\ UNCHANGED <<queue, accepted>>

\* IndexDocument(doc) is called
CallIndexDocument(c, i) ==
  /\ pc[c] = "idle"
  /\ MayStart(c)
  /\ Entered(c, DocumentComment(i, ops + 1))
  /\ op' = [op EXCEPT ![c] = "Index"]
  /\ graceful' = (graceful /\ ~closed)
  /\ UNCHANGED <<lock, closed, indexClosed, wg, workerVars, cpc, wal, rpos, index, gen,
                 handed, committedOK, returned, flushPre, exitFlushers, shutQueue, prev,
                 fault>>
  /\ deleted' = deleted \ {i}
  /\ flushDel' = [t \in Threads |-> flushDel[t] \ {i}]
  /\ delAfter' = [t \in Threads |->
                    delAfter[t] /\ ~(pc[t] = "delete" /\ arg[t].id = i)]
  /\ UNCHANGED <<dels, lastOK, pass, auxVars>>

\* Flush() is called: flusher := &idxFlusher{make(chan error)}
CallFlush(c) ==
  /\ pc[c] = "idle"
  /\ MayStart(c)
  /\ Entered(c, idxFlusher(c))
  /\ op' = [op EXCEPT ![c] = "Flush"]
  /\ flushPre' = [flushPre EXCEPT ![c] = returned]
  /\ graceful' = FALSE
  /\ UNCHANGED <<lock, closed, indexClosed, wg, workerVars, cpc, wal, rpos, index, gen,
                 handed, committedOK, returned, exitFlushers, shutQueue, prev, fault>>
  /\ flushDel' = [flushDel EXCEPT ![c] = deleted]
  /\ UNCHANGED <<dels, delAfter, deleted, lastOK, pass, auxVars>>

\* a thread that waited for queueLock pushes its entry
\* (IndexDocument, also when called by readAheadLog, and Flush)
LockedPushBack(t) ==
  /\ pc[t] = "lock"
  /\ lock = "free"
  /\ Pushed(t, arg[t])
  /\ UNCHANGED <<lock, closed, indexClosed, wg, workerVars, op, arg, res, cpc, diskVars,
                 handed, committedOK, returned, flushPre, startClosed, startCommit,
                 exitFlushers, shutQueue, graceful, prev, fault>>
  /\ UNCHANGED <<delVars, lastOK, pass, auxVars>>

\* s.queueNotifier <- x on the closed channel: the goroutine panics
SendOnClosed(t) ==
  /\ pc[t] = "send"
  /\ closed
  /\ pc' = [pc EXCEPT ![t] = "panicked"]
  /\ res' = [res EXCEPT ![t] = "panic"]
  /\ arg' = [arg EXCEPT ![t] = NoDoc]
  /\ UNCHANGED <<engineVars, workerVars, op, cpc, diskVars, histVars>>
  /\ UNCHANGED <<delVars, lastOK, pass, auxVars>>

\* Delete(commentID) is called: it goes straight to s.index.Delete
CallDelete(c, i) ==
  /\ pc[c] = "idle"
  /\ pc[0] \in {"idle", "done"}
  /\ c = 1 \/ op[c - 1] # "none"
  /\ dels < MaxDeletes
  /\ dels' = dels + 1
  /\ pc' = [pc EXCEPT ![c] = "delete"]
  /\ op' = [op EXCEPT ![c] = "Delete"]
  /\ arg' = [arg EXCEPT ![c] = DeleteArg(i)]
  /\ res' = [res EXCEPT ![c] = "none"]
  /\ startClosed' = [startClosed EXCEPT ![c] = closed]
  /\ startCommit' = [startCommit EXCEPT ![c] = (wpc = "commit")]
  /\ delAfter' = [delAfter EXCEPT ![c] =
                    \A t \in Threads : pc[t] \in {"lock", "send"} => arg[t].id # i]
  /\ UNCHANGED <<engineVars, workerVars, cpc, wal, rpos, index, gen, ops, accepted,
                 handed, committedOK, returned, flushPre, exitFlushers, shutQueue,
                 graceful, prev, fault, deleted, flushDel, lastOK, pass, auxVars>>

\* s.index.Delete(commentID) returns: ok, or an error (always on a closed index)
\* that Delete wraps and returns
DeleteReturn(c, ok) ==
  /\ pc[c] = "delete"
  /\ indexClosed => ~ok
  /\ index' = IF ok THEN [index EXCEPT ![arg[c].id] = 0] ELSE index
  /\ lastOK' = IF ok THEN [lastOK EXCEPT ![arg[c].id] = 0] ELSE lastOK
  /\ deleted' = IF ok /\ delAfter[c] THEN deleted \cup {arg[c].id} ELSE deleted
  /\ res' = [res EXCEPT ![c] = IF ok THEN "nil" ELSE "err"]
  /\ pc' = [pc EXCEPT ![c] = "idle"]
  /\ arg' = [arg EXCEPT ![c] = NoDoc]
  /\ fault' = (fault \/ (~ok /\ ~indexClosed))
  /\ startCommit' = [startCommit EXCEPT ![c] = FALSE]
  /\ UNCHANGED <<engineVars, workerVars, op, cpc, wal, rpos, gen, ops, accepted, handed,
                 committedOK, returned, flushPre, startClosed, exitFlushers, shutQueue,
                 graceful, prev, dels, delAfter, flushDel, pass, auxVars>>

\* ------------------------------------------------------------ worker
\* where the worker goes after one iteration of `for cont`
LoopNext == IF cont THEN "select" ELSE "wal_create"

\* flushers found in the queue at the moment the loop is left
ExitFlushers(next) ==
  IF next = "wal_create" THEN Range(Owners(queue)) ELSE exitFlushers

DocPositions(q) == {i \in 1..Len(q) : q[i].kind = "doc"}

\* the entries of q at the positions keep, in queue order
RECURSIVE Kept(_, _, _)
Kept(q, keep, i) ==
  IF i > Len(q) THEN <<>>
  ELSE (IF i \in keep THEN <<q[i]>> ELSE <<>>) \o Kept(q, keep, i + 1)

\* a loop that would stop at the first document batch.Index fails for
BatchUntilFailure(q, bad) ==
  Kept(q, {i \in DocPositions(q) : \A j \in bad : i < j}, 1)

\* the batch built from the queue q when batch.Index fails for the documents at
\* the positions bad: the failure is logged and the loop goes on
BatchOf(q, bad) ==
  Kept(q, DocPositions(q) \ bad, 1)

\* indexBatch up to the call of index.Batch: under queueLock the whole queue is
\* popped from the front; a document goes to the batch unless batch.Index fails
\* for it (bad), a flusher gets its deferred send; the lock is released and
\* index.Batch(batch) is called.  On an empty queue indexBatch returns at once.
indexBatch ==
  /\ lock = "free"
  /\ IF queue = <<>>
     THEN /\ wpc' = LoopNext
          /\ exitFlushers' = ExitFlushers(LoopNext)
          /\ UNCHANGED <<queue, batch, deferred, handed, fault, pass>>
     ELSE \E bad \in SUBSET DocPositions(queue) :
          /\ batch' = BatchOf(queue, bad)
          /\ deferred' = Owners(queue)
          /\ pass' = [popped |-> Range(Vers(queue)),
                      failed |-> {queue[i].ver : i \in bad},
                      owners |-> Owners(queue)]
          /\ queue' = <<>>
          /\ handed' = handed \o Vers(batch')
          /\ fault' = (fault \/ bad # {})
          /\ wpc' = "commit"
          /\ UNCHANGED exitFlushers

\* the goroutine starts: shutdownWait.Add(1), timer created, first select
WorkerStart ==
  /\ wpc = "start"
  /\ wg' = wg + 1
  /\ wpc' = "select"
  /\ cont' = TRUE
  /\ UNCHANGED <<queue, lock, closed, indexClosed, force, batch, deferred, callerVars,
                 cpc, diskVars, histVars>>
  /\ UNCHANGED <<delVars, lastOK, pass, auxVars>>

\* case <-tmr.C: s.indexBatch() (tmr.Reset follows its return)
TimerTick ==
  /\ wpc = "select"
  /\ indexBatch
  /\ UNCHANGED <<lock, closed, indexClosed, wg, force, cont, callerVars, cpc, diskVars,
                 accepted, committedOK, returned, flushPre, startClosed, startCommit,
                 shutQueue, graceful, prev>>
  /\ UNCHANGED <<delVars, lastOK, auxVars>>

\* case force, cont = <-s.queueNotifier, rendezvous with the sender t;
\* the sender goes on: IndexDocument returns nil, Flush waits on its flusher,
\* readAheadLog reads the next record
RecvNotifier(t) ==
  /\ wpc = "select"
  /\ ~closed
  /\ pc[t] = "send"
  /\ force' = (op[t] = "Flush")
  /\ cont' = TRUE
  /\ wpc' = "check"
  /\ pc' = [pc EXCEPT ![t] = CASE op[t] = "Flush" -> "recv"
                                [] op[t] = "Init" -> "read"
                                [] OTHER -> "idle"]
  /\ res' = [res EXCEPT ![t] = IF op[t] = "Index" THEN "nil" ELSE @]
  /\ arg' = [arg EXCEPT ![t] = NoDoc]
  /\ returned' = IF op[t] = "Index" THEN returned \cup {arg[t].ver} ELSE returned
  /\ startCommit' = [startCommit EXCEPT ![t] = IF op[t] = "Index" THEN FALSE ELSE @]
  /\ UNCHANGED <<engineVars, batch, deferred, op, cpc, diskVars, accepted, handed,
                 committedOK, flushPre, startClosed, exitFlushers, shutQueue, graceful,
                 prev, fault>>
  /\ UNCHANGED <<delVars, lastOK, pass, auxVars>>

\* receive on the closed notifier: force = false, cont = false
RecvClosed ==
  /\ wpc = "select"
  /\ closed
  /\ force' = FALSE
  /\ cont' = FALSE
  /\ wpc' = "check"
  /\ UNCHANGED <<engineVars, batch, deferred, callerVars, cpc, diskVars, histVars>>
  /\ UNCHANGED <<delVars, lastOK, pass, auxVars>>

\* RLock; full := Len >= flushCount; RUnlock; if force || full { s.indexBatch() }
CheckFull ==
  /\ wpc = "check"
  /\ lock = "free"
  /\ force' = FALSE
  /\ IF force \/ Len(queue) >= flushCount
     THEN indexBatch
     ELSE /\ wpc' = LoopNext
          /\ exitFlushers' = ExitFlushers(LoopNext)
          /\ UNCHANGED <<queue, batch, deferred, handed, fault, pass>>
  /\ UNCHANGED <<lock, closed, indexClosed, wg, cont, callerVars, cpc, diskVars,
                 accepted, committedOK, returned, flushPre, startClosed, startCommit,
                 shutQueue, graceful, prev>>
  /\ UNCHANGED <<delVars, lastOK, auxVars>>

\* index.Batch(batch) returns: ok or an error (always an error on a closed index);
\* the error is only logged
BatchReturn(ok) ==
  /\ wpc = "commit"
  /\ indexClosed => ~ok
  /\ index' = IF ok THEN ApplyBatch(index, batch) ELSE index
  /\ committedOK' = IF ok THEN committedOK \cup Range(Vers(batch)) ELSE committedOK
  /\ fault' = (fault \/ (~ok /\ ~indexClosed))
  /\ batch' = <<>>
  /\ wpc' = "ib_defer"
  /\ startCommit' = [t \in Threads |-> FALSE]
  /\ UNCHANGED <<engineVars, force, cont, deferred, callerVars, cpc, wal, rpos, gen, ops,
                 accepted, handed, returned, flushPre, startClosed, exitFlushers,
                 shutQueue, graceful, prev>>
  /\ lastOK' = IF ok THEN LastAccepted(lastOK, batch) ELSE lastOK
  /\ UNCHANGED <<delVars, pass, auxVars>>

\* a deferred `val.notifier <- x` runs, last deferred first: rendezvous with the
\* Flush caller o waiting in `<-flusher.notifier`; x is nil in indexBatch and
\* "indexer closing" in writeAheadLog
DeliverFlusher(o) ==
  /\ wpc \in {"ib_defer", "wal_defer"}
  /\ deferred # <<>>
  /\ o = deferred[Len(deferred)]
  /\ pc[o] = "recv"
  /\ deferred' = SubSeq(deferred, 1, Len(deferred) - 1)
  /\ pc' = [pc EXCEPT ![o] = "idle"]
  /\ res' = [res EXCEPT ![o] = IF wpc = "ib_defer" THEN "nil" ELSE "closing"]
  /\ UNCHANGED <<engineVars, wpc, force, cont, batch, op, arg, cpc, diskVars, histVars>>
  /\ UNCHANGED <<delVars, lastOK, pass, auxVars>>

\* indexBatch returns to the loop
IndexBatchReturn ==
  /\ wpc = "ib_defer"
  /\ deferred = <<>>
  /\ wpc' = LoopNext
  /\ exitFlushers' = ExitFlushers(LoopNext)
  /\ UNCHANGED <<engineVars, force, cont, batch, deferred, callerVars, cpc, diskVars,
                 accepted, handed, committedOK, returned, flushPre, startClosed,
                 startCommit, shutQueue, graceful, prev, fault>>
  /\ pass' = NoPass
  /\ UNCHANGED <<delVars, lastOK, auxVars>>

\* writeAheadLog: os.Create; on failure it returns and the worker ends
\* (deferred shutdownWait.Done)
WalCreate(ok) ==
  /\ wpc = "wal_create"
  /\ IF ok
     THEN /\ wal' = [exists |-> TRUE, data |-> <<>>]
          /\ wpc' = "wal_lock"
          /\ UNCHANGED <<wg, fault>>
     ELSE /\ wpc' = "done"
          /\ wg' = wg - 1
          /\ fault' = TRUE
          /\ UNCHANGED wal
  /\ UNCHANGED <<queue, lock, closed, indexClosed, force, cont, batch, deferred, callerVars,
                 cpc, rpos, index, gen, ops, accepted, handed, committedOK, returned,
                 flushPre, startClosed, startCommit, exitFlushers, shutQueue, graceful,
                 prev>>
  /\ UNCHANGED <<delVars, lastOK, pass, auxVars>>

\* the bytes written for the documents ds when the first k writes succeed and
\* the next one, if any, fails having written nothing or (short) only one byte
RECURSIVE Written(_, _, _)
Written(ds, k, short) ==
  IF ds = <<>> THEN <<>>
  ELSE IF k = 0 THEN (IF short THEN <<Marshal(Head(ds))[1]>> ELSE <<>>)
  ELSE Marshal(Head(ds)) \o <<0>> \o Written(Tail(ds), k - 1, short)

\* writeAheadLog: queueLock.Lock() and the loop that pops the whole queue;
\* after the first write error nothing more is written
WalDrain ==
  /\ wpc = "wal_lock"
  /\ lock = "free"
  /\ lock' = "worker"
  /\ LET ds == Kept(queue, DocPositions(queue), 1)
     IN \E k \in 0..Len(ds), short \in BOOLEAN :
          /\ (k = Len(ds)) => ~short
          /\ wal' = [exists |-> TRUE, data |-> Written(ds, k, short)]
          /\ fault' = (fault \/ k < Len(ds))
  /\ deferred' = Owners(queue)
  /\ queue' = <<>>
  /\ wpc' = "wal_defer"
  /\ UNCHANGED <<closed, indexClosed, wg, force, cont, batch, callerVars, cpc, rpos, index,
                 gen, ops, accepted, handed, committedOK, returned, flushPre, startClosed,
                 startCommit, exitFlushers, shutQueue, graceful, prev>>
  /\ UNCHANGED <<delVars, lastOK, pass, auxVars>>

\* writeAheadLog returns: queueLock.Unlock(), f.Close(), then shutdownWait.Done()
WalFinish ==
  /\ wpc = "wal_defer"
  /\ deferred = <<>>
  /\ lock' = "free"
  /\ wg' = wg - 1
  /\ wpc' = "done"
  /\ UNCHANGED <<queue, closed, indexClosed, force, cont, batch, deferred, callerVars, cpc,
                 diskVars, histVars>>
  /\ UNCHANGED <<delVars, lastOK, pass, auxVars>>

\* ------------------------------------------------------------ Close
\* close(s.queueNotifier)
CloseNotifier ==
  /\ cpc = "idle"
  /\ closed' = TRUE
  /\ cpc' = "index"
  /\ shutQueue' = Range(Vers(queue))
  /\ graceful' = (graceful /\ \A t \in Threads : pc[t] \in {"idle", "done"})
  /\ UNCHANGED <<queue, lock, indexClosed, wg, workerVars, callerVars, diskVars,
                 accepted, handed, committedOK, returned, flushPre, startClosed,
                 startCommit, exitFlushers, prev, fault>>
  /\ UNCHANGED <<delVars, lastOK, pass, auxVars>>

\* err := s.index.Close()
CloseIndex ==
  /\ cpc = "index"
  /\ indexClosed' = TRUE
  /\ cpc' = "wait"
  /\ UNCHANGED <<queue, lock, closed, wg, workerVars, callerVars, diskVars, histVars>>
  /\ UNCHANGED <<delVars, lastOK, pass, auxVars>>

\* s.shutdownWait.Wait() returns when the counter is zero; Close returns
CloseWait ==
  /\ cpc = "wait"
  /\ wg = 0
  /\ cpc' = "returned"
  /\ UNCHANGED <<engineVars, workerVars, callerVars, diskVars, histVars>>
  /\ UNCHANGED <<delVars, lastOK, pass, auxVars>>

\* ------------------------------------------------------------ Init
\* Init is entered, right after construction
CallInit ==
  /\ pc[0] = "idle"
  /\ \A t \in Threads : op[t] = "none"
  /\ pc' = [pc EXCEPT ![0] = "open"]
  /\ op' = [op EXCEPT ![0] = "Init"]
  /\ startClosed' = [startClosed EXCEPT ![0] = closed]
  /\ UNCHANGED <<engineVars, workerVars, arg, res, cpc, diskVars, accepted, handed,
                 committedOK, returned, flushPre, startCommit, exitFlushers, shutQueue,
                 graceful, prev, fault>>
  /\ UNCHANGED <<delVars, lastOK, pass, auxVars>>

\* any failure of os.Open taken for a missing file
OpenAheadLogAnyError(w, ok) ==
  IF ~w.exists \/ ~ok THEN "absent" ELSE "opened"

\* os.Open(s.getAheadLogPath()) and os.IsNotExist(err): ok tells whether opening
\* a file that exists succeeds
OpenAheadLog(w, ok) ==
  IF ~w.exists THEN "absent" ELSE IF ok THEN "opened" ELSE "error"

\* os.Open of the ahead log: absent -> (false, nil); another error -> (false, err)
InitOpen(ok) ==
  /\ pc[0] = "open"
  /\ IF OpenAheadLog(wal, ok) = "absent"
     THEN /\ pc' = [pc EXCEPT ![0] = "done"]
          /\ res' = [res EXCEPT ![0] = "false,nil"]
          /\ UNCHANGED rpos
     ELSE IF OpenAheadLog(wal, ok) = "opened"
     THEN /\ pc' = [pc EXCEPT ![0] = "read"]
          /\ rpos' = 0
          /\ UNCHANGED res
     ELSE /\ pc' = [pc EXCEPT ![0] = "done"]
          /\ res' = [res EXCEPT ![0] = "false,err"]
          /\ UNCHANGED rpos
  /\ fault' = (fault \/ (wal.exists /\ ~ok))
  /\ UNCHANGED <<engineVars, workerVars, op, arg, cpc, wal, index, gen, ops, accepted,
                 handed, committedOK, returned, flushPre, startClosed, startCommit,
                 exitFlushers, shutQueue, graceful, prev>>
  /\ UNCHANGED <<delVars, lastOK, pass, auxVars>>

\* the file after a deferred function that would remove it whatever replay returned
RemoveAheadLogAlways(w, failed, rmOK) ==
  IF rmOK THEN NoWal ELSE w

\* the file after the deferred function of Init: os.Remove only when readAheadLog
\* returned nil (failed = FALSE); rmOK tells whether os.Remove succeeds
RemoveAheadLog(w, failed, rmOK) ==
  IF ~failed /\ rmOK THEN NoWal ELSE w

\* one iteration of readAheadLog, and the return of Init when it ends the loop:
\* cancellation, read error, EOF (then os.Remove, whose error is only logged),
\* decode error, or IndexDocument of the decoded document
InitRead(cancelled, ioerr, rmOK) ==
  /\ pc[0] = "read"
  /\ LET r == ReadBytes(wal.data, rpos)
         u == Unmarshal(SubSeq(r.data, 1, Len(r.data) - 1), NilPtr)
     IN IF cancelled \/ ioerr
        THEN /\ pc' = [pc EXCEPT ![0] = "done"]
             /\ res' = [res EXCEPT ![0] = "true,err"]
             /\ wal' = RemoveAheadLog(wal, TRUE, rmOK)
             /\ UNCHANGED <<rpos, arg>>
        ELSE IF r.eof
        THEN /\ pc' = [pc EXCEPT ![0] = "done"]
             /\ res' = [res EXCEPT ![0] = "true,nil"]
             /\ wal' = RemoveAheadLog(wal, FALSE, rmOK)
             /\ rpos' = 0
             /\ UNCHANGED arg
        ELSE IF u.err
        THEN /\ pc' = [pc EXCEPT ![0] = "done"]
             /\ res' = [res EXCEPT ![0] = "true,err"]
             /\ wal' = RemoveAheadLog(wal, TRUE, rmOK)
             /\ UNCHANGED <<rpos, arg>>
        ELSE /\ pc' = [pc EXCEPT ![0] = "lock"]
             /\ arg' = [arg EXCEPT ![0] = u.doc]
             /\ rpos' = rpos + r.n
             /\ UNCHANGED <<wal, res>>
  /\ fault' = (fault \/ cancelled \/ ioerr \/ (ReadBytes(wal.data, rpos).eof /\ ~rmOK))
  /\ UNCHANGED <<engineVars, workerVars, op, cpc, index, gen, ops, accepted, handed,
                 committedOK, returned, flushPre, startClosed, startCommit, exitFlushers,
                 shutQueue, graceful, prev>>
  /\ UNCHANGED <<delVars, lastOK, pass, auxVars>>

\* ------------------------------------------------------------ restart
\* after Close returned and the worker ended, newBleve is run again on the same
\* index path: a new engine, the files of the old one
Reopen ==
  /\ gen < MaxGen
  /\ cpc = "returned"
  /\ wpc = "done"
  /\ \A t \in Threads : pc[t] \in {"idle", "done", "panicked"}
  /\ gen' = gen + 1
  /\ queue' = <<>>
  /\ lock' = "free"
  /\ closed' = FALSE
  /\ indexClosed' = FALSE
  /\ wg' = 0
  /\ wpc' = "start"
  /\ force' = FALSE
  /\ cont' = TRUE
  /\ batch' = <<>>
  /\ deferred' = <<>>
  /\ pc' = [t \in Threads |-> "idle"]
  /\ op' = [t \in Threads |-> "none"]
  /\ arg' = [t \in Threads |-> NoDoc]
  /\ res' = [t \in Threads |-> "none"]
  /\ cpc' = "idle"
  /\ rpos' = 0
  /\ accepted' = <<>>
  /\ handed' = <<>>
  /\ returned' = {}
  /\ flushPre' = [t \in Threads |-> {}]
  /\ startClosed' = [t \in Threads |-> FALSE]
  /\ startCommit' = [t \in Threads |-> FALSE]
  /\ exitFlushers' = {}
  /\ prev' = [queue |-> shutQueue, graceful |-> graceful]
  /\ shutQueue' = {}
  /\ graceful' = TRUE
  /\ UNCHANGED <<wal, index, ops, committedOK, fault>>
  /\ deleted' = {}
  /\ flushDel' = [t \in Threads |-> {}]
  /\ pass' = NoPass
  /\ UNCHANGED <<dels, delAfter, lastOK, auxVars>>

\* ------------------------------------------------------------ specification
Next ==
  \/ \E c \in Callers, i \in DocIDs : CallIndexDocument(c, i)
  \/ \E c \in Callers : CallFlush(c)
  \/ \E t \in Threads : LockedPushBack(t)
  \/ \E t \in Threads : SendOnClosed(t)
  \/ WorkerStart
  \/ TimerTick
  \/ \E t \in Threads : RecvNotifier(t)
  \/ RecvClosed
  \/ CheckFull
  \/ \E ok \in BOOLEAN : BatchReturn(ok)
  \/ \E o \in Callers : DeliverFlusher(o)
  \/ IndexBatchReturn
  \/ \E ok \in BOOLEAN : WalCreate(ok)
  \/ WalDrain
  \/ WalFinish
  \/ CloseNotifier
  \/ CloseIndex
  \/ CloseWait
  \/ CallInit
  \/ \E ok \in BOOLEAN : InitOpen(ok)
  \/ \E cancelled \in BOOLEAN, ioerr \in BOOLEAN, rmOK \in BOOLEAN : InitRead(cancelled, ioerr, rmOK)
  \/ Reopen

Spec == Init /\ [][Next]_vars

\* one engine from construction to the end of its worker: every operation of the
\* buffered engine except Init and the restart on the same path
EngineNext ==
  \/ \E c \in Callers, i \in DocIDs : CallIndexDocument(c, i)
  \/ \E c \in Callers : CallFlush(c)
  \/ \E t \in Threads : LockedPushBack(t)
  \/ \E t \in Threads : SendOnClosed(t)
  \/ WorkerStart
  \/ TimerTick
  \/ \E t \in Threads : RecvNotifier(t)
  \/ RecvClosed
  \/ CheckFull
  \/ \E ok \in BOOLEAN : BatchReturn(ok)
  \/ \E o \in Callers : DeliverFlusher(o)
  \/ IndexBatchReturn
  \/ \E ok \in BOOLEAN : WalCreate(ok)
  \/ WalDrain
  \/ WalFinish
  \/ CloseNotifier
  \/ CloseIndex
  \/ CloseWait

EngineSpec == Init /\ [][EngineNext]_vars

\* one engine whose callers also delete documents
DeleteNext ==
  \/ EngineNext
  \/ \E c \in Callers, i \in DocIDs : CallDelete(c, i)
  \/ \E c \in Callers, ok \in BOOLEAN : DeleteReturn(c, ok)

DeleteSpec == Init /\ [][DeleteNext]_vars

\* an engine that is never closed and on which only IndexDocument is called:
\* the worker is woken by notifier events and by its timer
TimerNext ==
  \/ \E c \in Callers, i \in DocIDs : CallIndexDocument(c, i)
  \/ WorkerStart
  \/ TimerTick
  \/ \E t \in Threads : RecvNotifier(t)
  \/ CheckFull
  \/ \E ok \in BOOLEAN : BatchReturn(ok)
  \/ IndexBatchReturn

\* the worker goroutine is scheduled, a call into the back end returns, and the
\* timer (flushEvery, reset after each timer batch) fires while the worker waits
\* in its select
TimerFairness ==
  /\ WF_vars(WorkerStart)
  /\ WF_vars(TimerTick)
  /\ WF_vars(CheckFull)
  /\ WF_vars(\E ok \in BOOLEAN : BatchReturn(ok))
  /\ WF_vars(IndexBatchReturn)

TimerSpec == Init /\ [][TimerNext]_vars /\ TimerFairness

\* an engine that is never closed, with IndexDocument and Flush callers
LiveNext ==
  \/ TimerNext
  \/ \E c \in Callers : CallFlush(c)
  \/ \E o \in Callers : DeliverFlusher(o)

\* besides TimerFairness: a rendezvous takes place when both sides stand at it
LiveFairness ==
  /\ TimerFairness
  /\ WF_vars(\E t \in Threads : RecvNotifier(t))
  /\ WF_vars(\E o \in Callers : DeliverFlusher(o))

LiveSpec == Init /\ [][LiveNext]_vars /\ LiveFairness

\* sequences of n documents as they stand in a queue
DocSeqs(n) ==
  {[k \in 1..n |-> DocumentComment(ids[k], k)] : ids \in [1..n -> DocIDs]}

\* ahead logs that writeAheadLog can have left on an index path: no file, or the
\* records of at most MaxWalDocs documents, cut short where a write failed
WalFiles ==
  {NoWal} \cup
  {[exists |-> TRUE, data |-> Written(ds, kw[1], kw[2])] :
     ds \in UNION {DocSeqs(n) : n \in 0..MaxWalDocs},
     kw \in (0..MaxWalDocs) \X BOOLEAN}

\* an index path used before: the engine is new, the ahead log is what the last
\* engine on the path left
ReplayInit ==
  /\ InitEngine
  /\ wal \in WalFiles
  /\ IdleService
  /\ IdleHandler
  /\ IdleSearch

\* Init on an engine built on a used index path, with the worker and Close of
\* that engine; no other call is made
ReplayNext ==
  \/ CallInit
  \/ \E ok \in BOOLEAN : InitOpen(ok)
  \/ \E cancelled \in BOOLEAN, ioerr \in BOOLEAN, rmOK \in BOOLEAN : InitRead(cancelled, ioerr, rmOK)
  \/ WorkerStart
  \/ TimerTick
  \/ RecvClosed
  \/ CheckFull
  \/ \E ok \in BOOLEAN : WalCreate(ok)
  \/ WalDrain
  \/ WalFinish
  \/ CloseNotifier
  \/ CloseIndex
  \/ CloseWait

ReplaySpec == ReplayInit /\ [][ReplayNext]_vars

\* ------------------------------------------------------------ remote back end
\* the characters of a secret; the prefix literals "basic:" and "token:" are
\* written with one letter before the colon
Chars == {"b", "t", "x", ":"}
basicPrefix == <<"b", ":">>
tokenPrefix == <<"t", ":">>
Strings(n) == UNION {[1..k -> Chars] : k \in 0..n}

\* strings.HasPrefix
HasPrefix(str, prefix) ==
  Len(str) >= Len(prefix) /\ SubSeq(str, 1, Len(prefix)) = prefix
\* strings.TrimPrefix
TrimPrefix(str, prefix) ==
  IF HasPrefix(str, prefix) THEN SubSeq(str, Len(prefix) + 1, Len(str)) ELSE str
\* strings.Split(str, sep) for a separator of one character
RECURSIVE Split(_, _)
Split(str, sep) ==
  LET at == {i \in 1..Len(str) : str[i] = sep}
  IN IF at = {} THEN <<str>>
     ELSE LET i == CHOOSE j \in at : \A k \in at : j <= k
          IN <<SubSeq(str, 1, i - 1)>> \o Split(SubSeq(str, i + 1, Len(str)), sep)

\* the two errors of parseSecret, and the prefixes their messages contain
ErrBasicFormat == "secret for basic auth sould have format 'basic:user:pass'"
ErrPrefixes == "secret should starts with one of prefixes: [basic: token:]"
PrefixesNamed(err) ==
  CASE err = ErrPrefixes -> {basicPrefix, tokenPrefix}
    [] err = ErrBasicFormat -> {basicPrefix}
    [] OTHER -> {}

\* a parseSecret that would store the first field before it checks their number
ParseSecretStoreFirst(secret, c) ==
  IF HasPrefix(secret, basicPrefix)
  THEN LET userpass == Split(TrimPrefix(secret, basicPrefix), ":")
       IN IF Len(userpass) # 2
          THEN [err |-> ErrBasicFormat, cfg |-> [c EXCEPT !.Username = userpass[1]]]
          ELSE [err |-> "nil",
                cfg |-> [c EXCEPT !.Username = userpass[1], !.Password = userpass[2]]]
  ELSE IF HasPrefix(secret, tokenPrefix)
  THEN [err |-> "nil", cfg |-> [c EXCEPT !.APIKey = TrimPrefix(secret, tokenPrefix)]]
  ELSE [err |-> ErrPrefixes, cfg |-> c]

\* parseSecret(secret, cfg): the error returned and the configuration afterwards
ParseSecret(secret, c) ==
  IF HasPrefix(secret, basicPrefix)
  THEN LET userpass == Split(TrimPrefix(secret, basicPrefix), ":")
       IN IF Len(userpass) # 2
          THEN [err |-> ErrBasicFormat, cfg |-> c]
          ELSE [err |-> "nil",
                cfg |-> [c EXCEPT !.Username = userpass[1], !.Password = userpass[2]]]
  ELSE IF HasPrefix(secret, tokenPrefix)
  THEN [err |-> "nil", cfg |-> [c EXCEPT !.APIKey = TrimPrefix(secret, tokenPrefix)]]
  ELSE [err |-> ErrPrefixes, cfg |-> c]

\* elasticsearch.Config as newElasticService builds it, and one whose
\* credentials are already set
NewConfig == [Username |-> <<>>, Password |-> <<>>, APIKey |-> <<>>]
SetConfig == [Username |-> <<"x">>, Password |-> <<"x">>, APIKey |-> <<"x">>]

\* parseSecret is about to be called with a secret and a configuration
SecretInit ==
  /\ InitEngine
  /\ wal = NoWal
  /\ IdleHandler
  /\ IdleSearch
  /\ params \in [secret : Strings(MaxSecretLen), cfg : {NewConfig, SetConfig}]
  /\ fpc = "secret"
  /\ cfg = params.cfg
  /\ shards = <<>>
  /\ ferr = "none"
  /\ eres = NoCall
  /\ ecalls = 0

\* parseSecret(params.secret, &cfg) runs
CallParseSecret ==
  /\ fpc = "secret"
  /\ fpc' = "parsed"
  /\ cfg' = ParseSecret(params.secret, cfg).cfg
  /\ ferr' = ParseSecret(params.secret, cfg).err
  /\ UNCHANGED <<bufferedVars, params, shards, eres, ecalls, httpVars, sortVars>>

SecretNext == CallParseSecret

SecretSpec == SecretInit /\ [][SecretNext]_vars

\* ------------------------------------------------------------ service factories
\* site lists of the configuration; site NumSites + 1 is in none of them
SiteIDs == 1..(NumSites + 1)
SiteLists == {[k \in 1..n |-> k] : n \in 0..NumSites}
\* keys of analyzerMapping
analyzerMapping == {"standard", "english", "russian"}

\* SearcherParams
ServiceParams ==
  [type : {"bleve", "elastic"},
   sites : SiteLists,
   analyzer : {"standard", "klingon"},
   endpoint : {<<>>, <<"x">>},
   secret : {<<>>, <<"b", ":", "x", ":", "x">>, <<"x", ":", "x">>},
   cfg : {NewConfig}]

\* newBleveService or newElasticService is about to be called
ServiceInit ==
  /\ InitEngine
  /\ wal = NoWal
  /\ IdleHandler
  /\ IdleSearch
  /\ params \in ServiceParams
  /\ fpc = "start"
  /\ cfg = params.cfg
  /\ shards = <<>>
  /\ ferr = "none"
  /\ eres = NoCall
  /\ ecalls = 0

\* what a factory has built for a site: a buffered engine on an open bleve index
\* with its worker goroutine, or a bulk indexer with its workers
Built(site) == [site |-> site, open |-> TRUE, worker |-> TRUE, items |-> <<>>]

\* the site the loop over params.Sites is at
NextSite == params.sites[Len(shards) + 1]

\* `return nil, err`: the factory returns, what it has built stays as it is
FactoryFails(err) ==
  /\ fpc' = "failed"
  /\ ferr' = err
  /\ UNCHANGED shards

\* newBleveService up to its loop: shards := map[string]*bufferedEngine{}
NewBleveServiceStart ==
  /\ fpc = "start"
  /\ params.type = "bleve"
  /\ fpc' = "sites"
  /\ UNCHANGED <<bufferedVars, params, cfg, shards, ferr, eres, ecalls, httpVars, sortVars>>

\* one iteration of the loop of newBleveService: newBleve(fpath, params.Analyzer)
\* fails on an unknown analyzer or when the index cannot be created or opened (~ok);
\* otherwise the engine is built and its worker goroutine started
NewBleve(ok) ==
  /\ fpc = "sites"
  /\ params.type = "bleve"
  /\ Len(shards) < Len(params.sites)
  /\ IF params.analyzer \notin analyzerMapping
     THEN FactoryFails("Unknown analyzer")
     ELSE IF ~ok
     THEN FactoryFails("cannot create/open index")
     ELSE /\ shards' = Append(shards, Built(NextSite))
          /\ UNCHANGED <<fpc, ferr>>
  /\ UNCHANGED <<bufferedVars, params, cfg, eres, ecalls, httpVars, sortVars>>

\* newElasticService up to its loop: parameters set, parseSecret, NewClient
NewElasticServiceStart(clientOK) ==
  /\ fpc = "start"
  /\ params.type = "elastic"
  /\ IF params.endpoint = <<>> \/ params.secret = <<>>
     THEN FactoryFails("elasticsearch parameters are not set") /\ UNCHANGED cfg
     ELSE IF ParseSecret(params.secret, cfg).err # "nil"
     THEN FactoryFails(ParseSecret(params.secret, cfg).err) /\ UNCHANGED cfg
     ELSE /\ cfg' = ParseSecret(params.secret, cfg).cfg
          /\ IF clientOK
             THEN fpc' = "sites" /\ UNCHANGED <<ferr, shards>>
             ELSE FactoryFails("cannot create client")
  /\ UNCHANGED <<bufferedVars, params, eres, ecalls, httpVars, sortVars>>

\* one iteration of the loop of newElasticService: esutil.NewBulkIndexer
NewBulkIndexer(ok) ==
  /\ fpc = "sites"
  /\ params.type = "elastic"
  /\ Len(shards) < Len(params.sites)
  /\ IF ok
     THEN /\ shards' = Append(shards, Built(NextSite))
          /\ UNCHANGED <<fpc, ferr>>
     ELSE FactoryFails("cannot create bulk indexer")
  /\ UNCHANGED <<bufferedVars, params, cfg, eres, ecalls, httpVars, sortVars>>

\* the loop over params.Sites is over: the factory returns the service
FactoryReturns ==
  /\ fpc = "sites"
  /\ Len(shards) = Len(params.sites)
  /\ fpc' = "ready"
  /\ UNCHANGED <<bufferedVars, params, cfg, shards, ferr, eres, ecalls, httpVars, sortVars>>

\* ------------------------------------------------------------ elastic service
\* e.bulkIndexers[siteID]: the position of the site's bulk indexer, 0 when absent
BulkIndexer(site) ==
  IF \E k \in 1..Len(shards) : shards[k].site = site
  THEN CHOOSE k \in 1..Len(shards) : shards[k].site = site
  ELSE 0

\* errors.Errorf("index for site %s does not found", siteID)
ErrNotFound == "does not found"

\* a call on the service returned by newElasticService
ElasticCall(o, site, err) ==
  /\ fpc = "ready"
  /\ params.type = "elastic"
  /\ ecalls < MaxCalls
  /\ ecalls' = ecalls + 1
  /\ eres' = [op |-> o, site |-> site, err |-> err]
  /\ UNCHANGED <<bufferedVars, params, fpc, cfg, ferr, httpVars, sortVars>>

\* bi.Add(ctx, item) on the bulk indexer of the site, which has one
BulkAdd(site, item) ==
  shards' = [shards EXCEPT ![BulkIndexer(site)].items = Append(@, item)]

\* elastic.IndexDocument: the site is comment.Locator.SiteID
ElasticIndexDocument(site, i) ==
  IF BulkIndexer(site) # 0
  THEN ElasticCall("IndexDocument", site, "nil")
       /\ BulkAdd(site, [action |-> "index", id |-> i])
  ELSE ElasticCall("IndexDocument", site, ErrNotFound) /\ UNCHANGED shards

\* elastic.Delete
ElasticDelete(site, i) ==
  IF BulkIndexer(site) # 0
  THEN ElasticCall("Delete", site, "nil")
       /\ BulkAdd(site, [action |-> "delete", id |-> i])
  ELSE ElasticCall("Delete", site, ErrNotFound) /\ UNCHANGED shards

\* elastic.Flush: return nil
ElasticFlush(site) ==
  ElasticCall("Flush", site, "nil") /\ UNCHANGED shards

\* elastic.Search: the request goes to the cluster with req.SiteID as the index;
\* what comes back is the cluster's answer
ElasticSearch(site, answer) ==
  ElasticCall("Search", site, answer) /\ UNCHANGED shards

ClusterAnswers ==
  {"nil", "transport error", "elastic respond an error", "error parsing the response body"}

ServiceNext ==
  \/ NewBleveServiceStart
  \/ \E ok \in BOOLEAN : NewBleve(ok)
  \/ \E clientOK \in BOOLEAN : NewElasticServiceStart(clientOK)
  \/ \E ok \in BOOLEAN : NewBulkIndexer(ok)
  \/ FactoryReturns
  \/ \E site \in SiteIDs, i \in DocIDs : ElasticIndexDocument(site, i)
  \/ \E site \in SiteIDs, i \in DocIDs : ElasticDelete(site, i)
  \/ \E site \in SiteIDs : ElasticFlush(site)
  \/ \E site \in SiteIDs, answer \in ClusterAnswers : ElasticSearch(site, answer)

ServiceSpec == ServiceInit /\ [][ServiceNext]_vars

\* ------------------------------------------------------------ GET /search
maxSearchLimit == 100

\* values of a URL query parameter: strings of signs, digits and another
\* character; the empty string is what Get returns for an absent parameter
ParamChars == {"-", "0", "1", "x"}
ParamStrings == UNION {[1..k -> ParamChars] : k \in 0..MaxParamLen}
Digit(ch) == IF ch = "1" THEN 1 ELSE 0

\* the value of a string of digits
RECURSIVE DigitsValue(_)
DigitsValue(ds) ==
  IF ds = <<>> THEN 0
  ELSE 10 * DigitsValue(SubSeq(ds, 1, Len(ds) - 1)) + Digit(ds[Len(ds)])

\* strconv.Atoi: an optional sign, then at least one digit and nothing else
Atoi(str) ==
  LET neg == str # <<>> /\ str[1] = "-"
      ds == IF neg THEN Tail(str) ELSE str
  IN IF ds = <<>> \/ \E k \in 1..Len(ds) : ds[k] \notin {"0", "1"}
     THEN [err |-> TRUE, val |-> 0]
     ELSE [err |-> FALSE, val |-> IF neg THEN 0 - DigitsValue(ds) ELSE DigitsValue(ds)]

\* a guard that would let the limit 0 through
LimitRejectedBelowZero(limit) ==
  limit < 0 \/ maxSearchLimit < limit

\* limit < 1 || maxSearchLimit < limit
LimitRejected(limit) ==
  limit < 1 \/ maxSearchLimit < limit

\* a request for /search has arrived
HandlerInit ==
  /\ InitEngine
  /\ wal = NoWal
  /\ IdleService
  /\ IdleSearch
  /\ query \in [limit : ParamStrings, skip : ParamStrings]
  /\ http = NoResponse

\* errors of dataService.Search that the handler tells apart
SearchErrors == {"nil", "ErrSearchNotReady", "ErrSearchNotEnabled", "other"}

\* searchQueryCtrl: the limit and skip parameters are read, a limit outside
\* 1..maxSearchLimit is answered with 400; otherwise the cache is asked, which
\* calls dataService.Search unless it holds the answer (hit), and the error of
\* Search decides the status
searchQueryCtrl(hit, searchErr) ==
  /\ http.status = 0
  /\ LET limit == IF Atoi(query.limit).err THEN 20 ELSE Atoi(query.limit).val
         skip == IF Atoi(query.skip).err THEN 0 ELSE Atoi(query.skip).val
     IN IF LimitRejected(limit)
        THEN http' = [status |-> 400, searched |-> FALSE, limit |-> 0, skip |-> 0]
        ELSE IF hit
        THEN http' = [status |-> 200, searched |-> FALSE, limit |-> 0, skip |-> 0]
        ELSE http' = [status |-> CASE searchErr = "nil" -> 200
                                   [] searchErr = "other" -> 500
                                   [] OTHER -> 400,
                      searched |-> TRUE, limit |-> limit, skip |-> skip]
  /\ UNCHANGED <<bufferedVars, svcVars, query, sortVars>>

HandlerNext == \E hit \in BOOLEAN, searchErr \in SearchErrors : searchQueryCtrl(hit, searchErr)

HandlerSpec == HandlerInit /\ [][HandlerNext]_vars

\* ------------------------------------------------------------ local Search
\* the characters of Request.SortBy; the field name "timestamp" is written with
\* two letters, so that a part of it and other letters are unknown fields
SortChars == {"+", "-", "t", "s"}
timestampField == <<"t", "s">>
SortStrings == UNION {[1..k -> SortChars] : k \in 0..MaxSortLen}

\* a validation that would drop every leading sign
RECURSIVE validateSortFieldAnySigns(_, _)
validateSortFieldAnySigns(sortBy, possible) ==
  IF sortBy = <<>> THEN FALSE
  ELSE IF sortBy[1] \in {"-", "+"} THEN validateSortFieldAnySigns(Tail(sortBy), possible)
  ELSE sortBy \in possible

\* validateSortField(sortBy, possible...): one leading sign is dropped, the rest
\* has to be one of the possible fields
validateSortField(sortBy, possible) ==
  IF sortBy = <<>> THEN FALSE
  ELSE LET field == IF sortBy[1] \in {"-", "+"} THEN Tail(sortBy) ELSE sortBy
       IN field \in possible

\* a Request is about to be given to bleveIndexer.Search
SortInit ==
  /\ InitEngine
  /\ wal = NoWal
  /\ IdleService
  /\ IdleHandler
  /\ sreq \in SortStrings
  /\ sres = NoResult

\* bleveIndexer.Search: the request is built, bReq.SortBy is called when the sort
\* field is valid (otherwise a warning is logged), idx.Index.Search runs, and its
\* error (indexErr) is the only one returned
bleveIndexerSearch(indexErr) ==
  /\ ~sres.executed
  /\ sres' = [executed |-> TRUE,
              sorted |-> validateSortField(sreq, {timestampField}),
              order |-> IF validateSortField(sreq, {timestampField}) THEN sreq ELSE <<>>,
              indexErr |-> indexErr,
              err |-> IF indexErr THEN "bleve search error" ELSE "nil"]
  /\ UNCHANGED <<bufferedVars, svcVars, httpVars, sreq>>

SortNext == \E indexErr \in BOOLEAN : bleveIndexerSearch(indexErr)

SortSpec == SortInit /\ [][SortNext]_vars

TypeOK ==
  /\ lock \in {"free", "worker"}
  /\ wg \in 0..1
  /\ wpc \in {"start", "select", "check", "commit", "ib_defer",
              "wal_create", "wal_lock", "wal_defer", "done"}
  /\ cpc \in {"idle", "index", "wait", "returned"}
  /\ \A t \in Threads : pc[t] \in {"idle", "lock", "send", "recv", "panicked",
                                   "open", "read", "done", "delete"}
  /\ Len(queue) <= MaxOps
  /\ gen \in 1..MaxGen
  /\ ops \in 0..MaxOps

\* ------------------------------------------------------------ properties
\* the last call of caller c was a Flush and it has returned
FlushReturned(c) == op[c] = "Flush" /\ pc[c] = "idle"

\* the deferred send the worker stands at, if any, is to this caller
DeferTarget == deferred[Len(deferred)]
WorkerAtDeferredSend == wpc \in {"ib_defer", "wal_defer"} /\ deferred # <<>>

\* versions of the documents whose IndexDocument returned nil and that were in
\* no successfully committed batch, in acceptance order
Uncommitted == SelectSeq(accepted, LAMBDA v : v \in returned /\ v \notin committedOK)

\* C1: whenever a Flush call has returned nil, every document whose IndexDocument
\* call returned before that Flush call started is in a batch whose commit succeeded
C1_FlushBarrier ==
  \A c \in Callers :
    (FlushReturned(c) /\ res[c] = "nil") => flushPre[c] \subseteq committedOK

\* C2: on an engine that is not closed, the worker is never blocked on the deferred
\* send to a Flush caller that is itself blocked on its send to the worker
C2_FlushNoMutualBlock ==
  ~(~closed /\ WorkerAtDeferredSend /\ pc[DeferTarget] = "send")

\* C3: a Flush call that started after the notifier was closed, or whose flusher was
\* in the queue when the worker left its loop, ends by returning "indexer closing"
C3_FlushOnCloseReturnsClosing ==
  \A c \in Callers :
    (op[c] = "Flush" /\ (startClosed[c] \/ c \in exitFlushers)
       /\ pc[c] \in {"idle", "panicked"})
      => res[c] = "closing"

\* C4: IndexDocument never panics, returns an error when the engine was closed and
\* nil otherwise, and no document is in the queue once the worker has ended
C4_IndexDocumentOnClose ==
  /\ \A c \in Callers :
       op[c] = "Index" =>
         /\ pc[c] # "panicked"
         /\ pc[c] = "idle" => res[c] = (IF startClosed[c] THEN "err" ELSE "nil")
  /\ wpc = "done" => DocPositions(queue) = {}

\* C5: an IndexDocument call that started during the batch commit now in flight
\* does not wait for it: while that commit is in flight its notifier send can
\* complete, so that the call can return before the commit finishes
C5_IndexDocumentNotBehindCommit ==
  \A c \in Callers :
    (op[c] = "Index" /\ startCommit[c] /\ pc[c] = "send" /\ wpc = "commit" /\ ~closed)
      => ENABLED RecvNotifier(c)

\* C6: the documents handed to the back end, all batches concatenated, are a
\* subsequence of the documents in the order IndexDocument appended them, and no
\* document is handed over twice
C6_CommitOrder ==
  /\ IsSubseq(handed, accepted)
  /\ \A i, j \in 1..Len(handed) : i < j => handed[i] # handed[j]

\* two documents have been handed to the back end
C6_Witness == Len(handed) >= 2

\* C7: after IndexDocument calls and a graceful Close without Flush, on the engine
\* reopened on the same path, once Init has run and a Flush has returned nil every
\* document that was queued at shutdown is committed and the ahead log is gone
C7_WalRoundTrip ==
  (gen > 1 /\ prev.graceful /\ ~fault /\ pc[0] = "done"
     /\ \E c \in Callers : FlushReturned(c) /\ res[c] = "nil")
    => (prev.queue \subseteq committedOK /\ ~wal.exists)

\* C8: when Close has returned (the worker having ended, no operation having failed
\* on its own), every document accepted and not successfully committed is a record
\* of the ahead log, in queue order
C8_ShutdownPersistence ==
  (cpc = "returned" /\ wpc = "done" /\ ~fault)
    => IsSubseq(Uncommitted, WalVers(wal.data))

\* C9: Close has returned only if the worker has finished writeAheadLog
C9_CloseWaitsForWorker == cpc = "returned" => wpc = "done"

\* C10: the worker, once the notifier is closed, is never stuck on a deferred send
\* to a caller that is gone, and when it has ended every flusher that was in the
\* queue at loop exit was resolved with the closing error
C10_CloseResolvesFlushers ==
  /\ ~(closed /\ WorkerAtDeferredSend /\ pc[DeferTarget] = "panicked")
  /\ wpc = "done" => \A o \in exitFlushers : res[o] = "closing"

\* C11: whenever a Flush call has returned nil, every id whose Delete had returned
\* nil before that Flush call started, and for which no IndexDocument was issued
\* after the Delete, has no document in the back end
C11_DeleteThenFlush ==
  \A c \in Callers :
    (FlushReturned(c) /\ res[c] = "nil")
      => \A i \in flushDel[c] \cap deleted : index[i] = 0

\* C12: for every id the back end holds exactly the document that was accepted
\* last among the documents of that id in successfully committed batches, whether
\* they were committed in one batch or in several
C12_Upsert == \A i \in DocIDs : index[i] = lastOK[i]

\* more documents were successfully committed than ids hold a document: two
\* committed documents share an id
C12_Witness ==
  Cardinality(committedOK) > Cardinality({i \in DocIDs : index[i] # 0})

\* the step in which Init returns from the replay of the ahead log
InitReturnsFromReplay == pc[0] = "read" /\ pc'[0] = "done"

\* C13: when Init returns a nil error after replaying an ahead log, nothing of the
\* file was left unread (no record was skipped, not even a final one without its
\* terminator) and, unless a file operation failed on its own, the file is removed
C13_InitSuccessFullReplay ==
  [][(InitReturnsFromReplay /\ res'[0] = "true,nil")
       => (rpos = Len(wal.data) /\ (~fault' => ~wal'.exists))]_vars

\* C14: Init ends the replay with a nil error only at the end of the file; when the
\* replay stops before that, on a read error, a decode error or a cancellation,
\* Init returns a non-nil error and the ahead log stays in place, unchanged
C14_InitFailureKeepsWal ==
  [][InitReturnsFromReplay
       => /\ res'[0] \in {"true,nil", "true,err"}
          /\ res'[0] = "true,nil" => ReadBytes(wal.data, rpos).eof
          /\ res'[0] = "true,err" => (wal'.exists /\ wal' = wal)]_vars

\* Init has failed on an ahead log that holds records, and the file is there
C14_Witness ==
  pc[0] = "done" /\ res[0] = "true,err" /\ wal.exists /\ Len(wal.data) >= 3

\* the step in which os.Open returns in Init
InitOpens == pc[0] = "open" /\ pc'[0] # "open"

C16_TimerProgress ==
  \A v \in 1..MaxOps :
    (v \in Range(accepted))
      ~> (v \in Range(handed) \/ (fault /\ v \notin Range(Vers(queue))))

\* number of colons in a string
Colons(str) == Cardinality({i \in 1..Len(str) : str[i] = ":"})
\* str has the form basic:<user>:<pass>: the prefix, then two fields with one colon
\* between them
BasicForm(str) ==
  HasPrefix(str, basicPrefix) /\ Colons(SubSeq(str, 3, Len(str))) = 1
\* str has the form token:<apiKey>
TokenForm(str) == HasPrefix(str, tokenPrefix)
\* the part of str before (1) and after (2) its first colon that follows position 2
Field(str, n) ==
  LET i == CHOOSE j \in 3..Len(str) : str[j] = ":" /\ \A k \in 3..(j - 1) : str[k] # ":"
  IN IF n = 1 THEN SubSeq(str, 3, i - 1) ELSE SubSeq(str, i + 1, Len(str))

\* what parseSecret does on the secrets it accepts: exactly those of one of the two
\* forms, storing the fields
ParsedAccepts ==
  LET str == params.secret
  IN /\ ferr = "nil" <=> (BasicForm(str) \/ TokenForm(str))
     /\ BasicForm(str) =>
          cfg = [params.cfg EXCEPT !.Username = Field(str, 1), !.Password = Field(str, 2)]
     /\ (TokenForm(str) /\ ~HasPrefix(str, basicPrefix)) =>
          cfg = [params.cfg EXCEPT !.APIKey = SubSeq(str, 3, Len(str))]

C17_UnknownSite ==
  [][(ecalls' = ecalls + 1 /\ BulkIndexer(eres'.site) = 0)
       => (eres'.err = ErrNotFound /\ shards' = shards)]_vars

\* C18: when a factory has returned an error, no shard that it built has a running
\* worker or an open back end
C18_FactoryCleanup ==
  fpc = "failed" => \A k \in 1..Len(shards) : ~shards[k].open /\ ~shards[k].worker

\* the limit of the request: the limit parameter, 20 when it is absent or no number
EffectiveLimit == IF Atoi(query.limit).err THEN 20 ELSE Atoi(query.limit).val

\* C20: once the /search handler has answered, Search was called only if the
\* effective limit is within 1..100, and with that limit; for any other limit the
\* answer is 400 and Search was not called
C20_LimitGuard ==
  http.status # 0 =>
    /\ http.searched => (EffectiveLimit \in 1..100 /\ http.limit = EffectiveLimit)
    /\ EffectiveLimit \notin 1..100 => (http.status = 400 /\ ~http.searched)

\* a request with limit=101 has been answered with 400
C20_Witness ==
  /\ http.status # 0
  /\ query.limit = <<"1", "0", "1">>
  /\ http.status = 400
  /\ ~http.searched

\* C30: every search request that the /search handler passes to the data service
\* has an offset that is not negative, whatever the skip parameter is
C30_NonNegativeOffset == http.searched => http.skip >= 0

\* C21: the local back end applies a sort order exactly when SortBy is timestamp,
\* +timestamp or -timestamp, and then the order is SortBy itself; for every other
\* value the search is executed all the same, unsorted, and an error is returned
\* only when the index search itself fails
C21_SortValidation ==
  /\ ~sres.executed => ENABLED SortNext
  /\ sres.executed =>
       /\ sres.sorted <=> sreq \in {timestampField, <<"+">> \o timestampField,
                                     <<"-">> \o timestampField}
       /\ sres.order = (IF sres.sorted THEN sreq ELSE <<>>)
       /\ sres.err # "nil" <=> sres.indexErr

\* a search with the doubled sign ++timestamp was executed, unsorted, without error
C21_Witness ==
  /\ sres.executed
  /\ sreq = <<"+", "+">> \o timestampField
  /\ ~sres.sorted
  /\ sres.err = "nil"

\* the step in which indexBatch pops the queue and calls index.Batch
IndexBatchDrains == wpc # "commit" /\ wpc' = "commit"

\* C22: the batch built in the pass that pops a flusher whose Flush call waits for
\* the completion signal, the batch whose commit resolves that flusher, holds no
\* document that was appended to the queue after the flusher
C22_BarrierExclusion ==
  [][IndexBatchDrains =>
       \A i, j \in 1..Len(queue) :
         (i < j /\ queue[i].kind = "flusher" /\ pc[queue[i].owner] = "recv"
            /\ queue[j].kind = "doc")
           => queue[j].ver \notin Range(Vers(batch'))]_vars

\* C23: the worker does not hold the queue lock while index.Batch runs, nor while
\* it stands at the send of a completion signal to a flusher
C23_NoLockDuringCommit ==
  (wpc = "commit" \/ WorkerAtDeferredSend) => lock # "worker"

\* C24: no two write operations on the back end, batch commits or Deletes, are in
\* progress at the same time
C24_SingleWriter ==
  Cardinality({c \in Callers : pc[c] = "delete"})
    + (IF wpc = "commit" THEN 1 ELSE 0) <= 1

\* C28: no batch that holds documents is handed to index.Batch after index.Close
\* has been called
C28_NoCommitOnClosed ==
  [][(IndexBatchDrains /\ batch' # <<>>) => ~indexClosed]_vars

\* Init has returned an error from the replay and left the ahead log in place
InitFailedWalRetained ==
  pc[0] = "done" /\ res[0] = "true,err" /\ wal.exists

\* C29: once Init has failed or was cancelled and has left the ahead log in place,
\* no later step of the engine, its shutdown included, loses a record of the file
\* that was not replayed
C29_RetainedWalNotLost ==
  [][InitFailedWalRetained =>
       IsSubseq(WalVers(SubSeq(wal.data, rpos + 1, Len(wal.data))),
                WalVers(wal'.data))]_vars

\* C26: in a pass of indexBatch the batch holds every popped document except those
\* batch.Index failed for, and every popped flusher has its deferred send; the
\* pass pops the whole queue and calls index.Batch whether or not a document
\* failed; whatever index.Batch returns, the deferred sends to the flushers run
\* next and the worker then goes back to its loop
C26_FailureIsolation ==
  /\ [](wpc = "commit" =>
          /\ Range(Vers(batch)) = pass.popped \ pass.failed
          /\ deferred = pass.owners)
  /\ [][/\ IndexBatchDrains => (queue' = <<>> /\ deferred' = Owners(queue))
        /\ (wpc = "commit" /\ wpc' # "commit")
             => (wpc' = "ib_defer" /\ deferred' = deferred /\ cont' = cont)
        /\ (wpc = "ib_defer" /\ wpc' # "ib_defer")
             => (deferred = <<>> /\ wpc' = IF cont THEN "select" ELSE "wal_create")]_vars

\* batch.Index failed for a document of a pass, and another document of the same
\* pass was committed
C26_Witness ==
  /\ wpc = "ib_defer"
  /\ pass.failed # {}
  /\ pass.popped \ pass.failed # {}
  /\ (pass.popped \ pass.failed) \subseteq committedOK

\* s is the beginning of t
IsPrefix(s, t) == Len(s) <= Len(t) /\ SubSeq(t, 1, Len(s)) = s

\* what the loop of writeAheadLog does to the queue and the file: it pops every
\* entry, gives every flusher a deferred send, writes the documents in queue order
\* up to the first error and nothing after it; the queue is empty at the return
WalLoopPopsAll ==
  /\ (wpc = "wal_lock" /\ wpc' = "wal_defer") =>
       /\ queue' = <<>>
       /\ deferred' = Owners(queue)
       /\ IsPrefix(WalVers(wal'.data), Vers(queue))
       /\ ~fault' => WalVers(wal'.data) = Vers(queue)
  /\ (wpc = "wal_defer" /\ wpc' = "done") => (queue' = <<>> /\ deferred = <<>>)

\* C25: writeAheadLog writes no document after the first write error but pops every
\* entry of the queue, flushers are not written, the queue is empty when it
\* returns, and every flusher it has popped is resolved with the closing error,
\* also after an error: the worker does not then stand at a closing send that the
\* Flush call is not there to receive
C25_WalWriteWithErrors ==
  /\ [][WalLoopPopsAll]_vars
  /\ [](~(wpc = "wal_defer" /\ fault /\ deferred # <<>> /\ pc[DeferTarget] # "recv"))

\* no element occurs twice in the sequence s
NoDuplicates(s) == \A i, j \in 1..Len(s) : i < j => s[i] # s[j]

\* the engine's lifetime is over: Close has returned, the worker has ended and no
\* call is in progress
LifetimeOver ==
  cpc = "returned" /\ wpc = "done" /\ \A c \in Callers : pc[c] \in {"idle", "panicked"}

\* C27: no document is handed to a batch twice or written to the ahead log twice,
\* none is both in a batch and in the ahead log, the ahead log exists only once the
\* worker has left its loop and holds accepted documents only, and, no operation
\* having failed on its own, at the end of the engine's lifetime every document
\* that IndexDocument appended has been popped
C27_ExactlyOnceHandOff ==
  /\ NoDuplicates(handed)
  /\ NoDuplicates(WalVers(wal.data))
  /\ Range(WalVers(wal.data)) \cap Range(handed) = {}
  /\ Range(WalVers(wal.data)) \subseteq Range(accepted)
  /\ wal.exists => wpc \in {"wal_lock", "wal_defer", "done"}
  /\ (LifetimeOver /\ ~fault) => DocPositions(queue) = {}

====
